---- MODULE Spec2Model ----
(***************************************************************************)
(* Model of workflow_agents/agent.py: the "Historical Court" multi-agent   *)
(* workflow.  The root inquiry agent stores the topic with append_to_state *)
(* and transfers to historical_court_system, a SequentialAgent of          *)
(* trial_review_loop (a LoopAgent over investigation_team and judge, at    *)
(* most max_iterations passes) and verdict_agent.  investigation_team is a *)
(* ParallelAgent of admirer and critic_investigator.                       *)
(*                                                                         *)
(* The language model behind every agent is an input: an agent may call    *)
(* any tool of its tools list, any number of times, with any arguments.    *)
(* append_to_state is two statements (a read of the state key and a write  *)
(* of the key) and holds no lock, so the two statements of concurrent      *)
(* callers interleave.                                                     *)
(***************************************************************************)
EXTENDS Naturals, Sequences, FiniteSets, TLC

VARIABLES
    state,         \* tool_context.state: a mapping, key -> list of strings
    pc,            \* per agent: "idle", "running", "get" (between lines 34 and 35), "done"
    existing_state,\* per agent: the local of append_to_state read at line 34
    args,          \* per agent: <<field, response>> of the call in progress
    ret,           \* per agent: status returned by its last completed tool call
    stage,         \* which unit of the workflow is active
    loop_status,   \* "NOT_STARTED", "RUNNING", "TERMINATED_BY_SIGNAL", "TERMINATED_BY_CAP"
    times_looped,  \* completed passes of trial_review_loop that did not exit
    escalate,      \* the exit_loop signal raised during the current sub-agent
    appends,       \* number of append_to_state calls started so far (bounded)
    \* -- observation of the run (never read by the workflow) --
    team_runs,     \* number of investigation_team runs started
    judge_runs,    \* number of judge runs started
    verdict_runs,  \* number of verdict_agent runs started
    exit_pass,     \* pass on which exit_loop was first called, 0 if never
    exit_by,       \* agents that have called exit_loop
    pre,           \* state at the start of the current investigation_team pass
    items,         \* per agent: <<field, response>> of its completed appends in its current run
    order,         \* research agents in the order they completed the current pass
    \* -- the file system below the working directory --
    dirs,          \* the directories that exist (paths, as sequences of components)
    files,         \* the files that exist: path -> content
    writes,        \* number of write_file calls so far (bounded)
    written        \* observation: <<directory, filename, content>> of the write_file calls

fsvars == <<dirs, files, writes, written>>

vars == <<state, pc, existing_state, args, ret, stage, loop_status, times_looped,
          escalate, appends, team_runs, judge_runs, verdict_runs, exit_pass,
          exit_by, pre, items, order, dirs, files, writes, written>>

----------------------------------------------------------------------------
(* Bounds of the model *)

\* Total number of append_to_state calls of one run.
MaxAppends == 3

\* Total number of append_to_state and write_file calls of one run.
MaxCalls == 3

\* The strings a language model passes as 'response'.
Responses == {"a", "b"}

\* The strings a language model passes as 'field'.
Keys == {"TOPIC", "pos_data", "neg_data"}

\* The arguments a language model passes to write_file: 'directory' as the
\* sequence of its path components (<<>> is the empty string), 'filename'
\* (one relative component) and 'content'.
Directories == {<<>>, <<"court_reports">>, <<"court_reports", "x">>}
Filenames == {"x", "topic.txt"}
Contents == {"r1", "r2"}

----------------------------------------------------------------------------
(* Configuration of the agents *)

max_iterations == 3

investigation_team == {"admirer", "critic_investigator"}

Agents == {"inquiry_agent", "admirer", "critic_investigator", "judge", "verdict_agent"}

\* Faulty variant of Tools: exit_loop also given to the research agents.
ToolsWithExitEverywhere(a) ==
    IF a \in investigation_team
    THEN {"wikipedia", "append_to_state", "exit_loop"}
    ELSE IF a = "judge" THEN {"exit_loop"}
    ELSE IF a = "verdict_agent" THEN {"write_file"}
    ELSE {"append_to_state"}

\* Faulty variant of Tools: append_to_state also given to judge and verdict_agent.
ToolsWithAppendEverywhere(a) ==
    IF a \in investigation_team THEN {"wikipedia", "append_to_state"}
    ELSE IF a = "judge" THEN {"exit_loop", "append_to_state"}
    ELSE IF a = "verdict_agent" THEN {"write_file", "append_to_state"}
    ELSE {"append_to_state"}

\* The tools= list of each Agent(...)
Tools(a) ==
    IF a \in investigation_team THEN {"wikipedia", "append_to_state"}
    ELSE IF a = "judge" THEN {"exit_loop"}
    ELSE IF a = "verdict_agent" THEN {"write_file"}
    ELSE {"append_to_state"}

----------------------------------------------------------------------------
(* tool_context.state *)

EmptyState == [k \in {} |-> <<>>]

\* state.get(field, [])
StateGet(s, field) == IF field \in DOMAIN s THEN s[field] ELSE <<>>

\* Faulty variant of StateSet: the state is replaced by the one key written.
StateSetOnly(s, field, value) == [k \in {field} |-> value]

\* state[field] = value
StateSet(s, field, value) ==
    [k \in DOMAIN s \cup {field} |-> IF k = field THEN value ELSE s[k]]

\* Faulty variant of AppendValue: the response is not added.
DropResponse(existing, response) == existing

\* Faulty variant of AppendValue: [response] + existing_state
PrependValue(existing, response) == <<response>> \o existing

\* existing_state + [response]
AppendValue(existing, response) == existing \o <<response>>

\* Resolution of the placeholder { KEY? }: the value, or empty when unset.
Resolve(s, key) == StateGet(s, key)

----------------------------------------------------------------------------
(* write_file and the file system *)

EmptyFiles == [p \in {} |-> ""]

\* os.path.join(directory, filename), filename one relative component
JoinPath(directory, filename) == directory \o <<filename>>

\* os.path.dirname(target_path)
Dirname(path) == SubSeq(path, 1, Len(path) - 1)

\* The path and its ancestors below the working directory.
Prefixes(path) == {SubSeq(path, 1, i) : i \in 1..Len(path)}

\* Faulty variant of MakedirsOk: os.makedirs(name) without exist_ok=True,
\* which raises FileExistsError when the directory exists.
MakedirsExclusive(name, d, f) ==
    /\ name # <<>>
    /\ \A p \in Prefixes(name) : p \notin DOMAIN f
    /\ name \notin d

\* os.makedirs(name, exist_ok=True) returns: name is not the empty string
\* (FileNotFoundError) and no component of it is a file (FileExistsError,
\* NotADirectoryError).
MakedirsOk(name, d, f) == name # <<>> /\ \A p \in Prefixes(name) : p \notin DOMAIN f

\* The directories after os.makedirs(name, exist_ok=True) returned.
Makedirs(name, d) == d \cup Prefixes(name)

\* open(target_path, "w") returns: the target is not a directory (IsADirectoryError).
OpenOk(path, d) == path \notin d

\* open(target_path, "w") and f.write(content): the file holds content alone.
WriteContent(f, path, content) ==
    [p \in DOMAIN f \cup {path} |-> IF p = path THEN content ELSE f[p]]

----------------------------------------------------------------------------
(* Control of LoopAgent, ParallelAgent *)

\* Faulty variant of ShouldExit: the exit signal is not looked at.
IgnoreEscalate(esc) == FALSE

\* LoopAgent: leave the loop after a sub-agent that raised the exit signal
ShouldExit(esc) == esc

\* Faulty variant of LoopContinues: one pass too many.
LoopContinuesOffByOne(t) == t <= max_iterations

\* LoopAgent: another pass while fewer than max_iterations passes completed
LoopContinues(t) == t < max_iterations

\* Faulty variant of JoinReady: a sub-agent that appended nothing is waited for.
JoinNeedsOutput(p) == \A a \in investigation_team : p[a] = "done" /\ items[a] # <<>>

\* Faulty variant of JoinReady: complete when the first sub-agent has completed.
JoinOnFirst(p) == \E a \in investigation_team : p[a] = "done"

\* ParallelAgent: complete when every sub-agent has completed
JoinReady(p) == \A a \in investigation_team : p[a] = "done"

NoItems == [a \in Agents |-> <<>>]

Init ==
    /\ state = EmptyState
    /\ pc = [a \in Agents |-> IF a = "inquiry_agent" THEN "running" ELSE "idle"]
    /\ existing_state = [a \in Agents |-> <<>>]
    /\ args = [a \in Agents |-> <<>>]
    /\ ret = [a \in Agents |-> "none"]
    /\ stage = "inquiry"
    /\ loop_status = "NOT_STARTED"
    /\ times_looped = 0
    /\ escalate = FALSE
    /\ appends = 0
    /\ team_runs = 0
    /\ judge_runs = 0
    /\ verdict_runs = 0
    /\ exit_pass = 0
    /\ exit_by = {}
    /\ pre = EmptyState
    /\ items = NoItems
    /\ order = <<>>
    /\ dirs = {}
    /\ files = EmptyFiles
    /\ writes = 0
    /\ written = <<>>

----------------------------------------------------------------------------
(* Tool calls *)

\* append_to_state, line 34: existing_state = tool_context.state.get(field, [])
AppendRead(a, field, response) ==
    /\ UNCHANGED fsvars
    /\ pc[a] = "running"
    /\ "append_to_state" \in Tools(a)
    /\ appends < MaxAppends
    /\ existing_state' = [existing_state EXCEPT ![a] = StateGet(state, field)]
    /\ args' = [args EXCEPT ![a] = <<field, response>>]
    /\ pc' = [pc EXCEPT ![a] = "get"]
    /\ appends' = appends + 1
    /\ UNCHANGED <<state, ret, stage, loop_status, times_looped, escalate, team_runs,
                   judge_runs, verdict_runs, exit_pass, exit_by, pre, items, order>>

\* append_to_state, lines 35-37: tool_context.state[field] = existing_state + [response]
AppendWrite(a) ==
    /\ UNCHANGED fsvars
    /\ pc[a] = "get"
    /\ state' = StateSet(state, args[a][1], AppendValue(existing_state[a], args[a][2]))
    /\ ret' = [ret EXCEPT ![a] = "success"]
    /\ items' = [items EXCEPT ![a] = Append(@, args[a])]
    /\ pc' = [pc EXCEPT ![a] = "running"]
    /\ existing_state' = [existing_state EXCEPT ![a] = <<>>]
    /\ args' = [args EXCEPT ![a] = <<>>]
    /\ UNCHANGED <<stage, loop_status, times_looped, escalate, appends, team_runs,
                   judge_runs, verdict_runs, exit_pass, exit_by, pre, order>>

\* exit_loop: raises the exit signal of the enclosing LoopAgent
ExitLoop(a) ==
    /\ UNCHANGED fsvars
    /\ pc[a] = "running"
    /\ "exit_loop" \in Tools(a)
    /\ escalate' = TRUE
    /\ exit_pass' = IF exit_pass = 0 THEN team_runs ELSE exit_pass
    /\ exit_by' = exit_by \cup {a}
    /\ UNCHANGED <<state, pc, existing_state, args, ret, stage, loop_status,
                   times_looped, appends, team_runs, judge_runs, verdict_runs,
                   pre, items, order>>

\* write_file, lines 46-50, called by agent a.  An exception of os.makedirs or
\* open is not caught: it leaves the tool and ends the run.
WriteFile(a, directory, filename, content) ==
    /\ pc[a] = "running"
    /\ "write_file" \in Tools(a)
    /\ appends + writes < MaxCalls
    /\ writes' = writes + 1
    /\ written' = Append(written, <<directory, filename, content>>)
    /\ LET target_path == JoinPath(directory, filename)
           parent == Dirname(target_path)
       IN IF ~MakedirsOk(parent, dirs, files)
          THEN /\ UNCHANGED <<dirs, files>>
               /\ ret' = [ret EXCEPT ![a] = "raised"]
               /\ pc' = [pc EXCEPT ![a] = "failed"]
               /\ stage' = "aborted"
          ELSE IF ~OpenOk(target_path, Makedirs(parent, dirs))
          THEN /\ dirs' = Makedirs(parent, dirs)
               /\ UNCHANGED files
               /\ ret' = [ret EXCEPT ![a] = "raised"]
               /\ pc' = [pc EXCEPT ![a] = "failed"]
               /\ stage' = "aborted"
          ELSE /\ dirs' = Makedirs(parent, dirs)
               /\ files' = WriteContent(files, target_path, content)
               /\ ret' = [ret EXCEPT ![a] = "success"]
               /\ UNCHANGED <<pc, stage>>
    /\ UNCHANGED <<state, existing_state, args, loop_status, times_looped, escalate,
                   appends, team_runs, judge_runs, verdict_runs, exit_pass, exit_by,
                   pre, items, order>>

\* An agent ends its run (its model produced its final text).
Finish(a) ==
    /\ UNCHANGED fsvars
    /\ pc[a] = "running"
    /\ a # "inquiry_agent"
    /\ pc' = [pc EXCEPT ![a] = "done"]
    /\ order' = IF a \in investigation_team THEN Append(order, a) ELSE order
    /\ UNCHANGED <<state, existing_state, args, ret, stage, loop_status, times_looped,
                   escalate, appends, team_runs, judge_runs, verdict_runs, exit_pass,
                   exit_by, pre, items>>

----------------------------------------------------------------------------
(* Workflow agents *)

\* pc with the research agents of investigation_team started
StartTeam(p) == [a \in Agents |-> IF a \in investigation_team THEN "running" ELSE p[a]]

\* Faulty variant of LeaveLoop: verdict_agent is not among the sub-agents of
\* historical_court_system, which finishes when the loop is left.
LeaveLoopWithoutVerdict(p, status) ==
    /\ loop_status' = status
    /\ stage' = "finished"
    /\ pc' = p
    /\ UNCHANGED <<verdict_runs, team_runs, judge_runs, pre, items, order>>

\* The loop is left: SequentialAgent runs its next sub-agent, verdict_agent.
LeaveLoop(p, status) ==
    /\ loop_status' = status
    /\ stage' = "verdict"
    /\ pc' = [p EXCEPT !["verdict_agent"] = "running"]
    /\ verdict_runs' = verdict_runs + 1
    /\ UNCHANGED <<team_runs, judge_runs, pre, items, order>>

\* A pass begins: LoopAgent runs its first sub-agent, investigation_team.
BeginPass(p) ==
    /\ loop_status' = "RUNNING"
    /\ stage' = "team"
    /\ pc' = StartTeam(p)
    /\ team_runs' = team_runs + 1
    /\ pre' = state
    /\ items' = NoItems
    /\ order' = <<>>
    /\ UNCHANGED <<judge_runs, verdict_runs>>

\* root_agent transfers control to historical_court_system, whose first
\* sub-agent trial_review_loop starts its first pass.
Transfer ==
    /\ UNCHANGED fsvars
    /\ stage = "inquiry"
    /\ pc["inquiry_agent"] = "running"
    /\ IF LoopContinues(times_looped)
       THEN BeginPass([pc EXCEPT !["inquiry_agent"] = "done"])
       ELSE LeaveLoop([pc EXCEPT !["inquiry_agent"] = "done"], "TERMINATED_BY_CAP")
    /\ UNCHANGED <<state, existing_state, args, ret, times_looped, escalate, appends,
                   exit_pass, exit_by>>

\* investigation_team has completed; trial_review_loop leaves on the exit
\* signal, else runs its second sub-agent, judge.
JoinTeam ==
    /\ UNCHANGED fsvars
    /\ stage = "team"
    /\ JoinReady(pc)
    /\ IF ShouldExit(escalate)
       THEN LeaveLoop(pc, "TERMINATED_BY_SIGNAL")
       ELSE /\ stage' = "judge"
            /\ pc' = [pc EXCEPT !["judge"] = "running"]
            /\ judge_runs' = judge_runs + 1
            /\ UNCHANGED <<loop_status, team_runs, verdict_runs, pre, items, order>>
    /\ UNCHANGED <<state, existing_state, args, ret, times_looped, escalate, appends,
                   exit_pass, exit_by>>

\* judge has completed; trial_review_loop leaves on the exit signal, else
\* counts the pass and either starts the next one or stops at the cap.
AfterJudge ==
    /\ UNCHANGED fsvars
    /\ stage = "judge"
    /\ pc["judge"] = "done"
    /\ IF ShouldExit(escalate)
       THEN /\ LeaveLoop(pc, "TERMINATED_BY_SIGNAL")
            /\ UNCHANGED times_looped
       ELSE /\ times_looped' = times_looped + 1
            /\ IF LoopContinues(times_looped + 1)
               THEN BeginPass(pc)
               ELSE LeaveLoop(pc, "TERMINATED_BY_CAP")
    /\ UNCHANGED <<state, existing_state, args, ret, escalate, appends, exit_pass, exit_by>>

\* verdict_agent has completed: historical_court_system is finished.
PipelineDone ==
    /\ UNCHANGED fsvars
    /\ stage = "verdict"
    /\ pc["verdict_agent"] = "done"
    /\ stage' = "finished"
    /\ UNCHANGED <<state, pc, existing_state, args, ret, loop_status, times_looped,
                   escalate, appends, team_runs, judge_runs, verdict_runs, exit_pass,
                   exit_by, pre, items, order>>

Next ==
    \/ \E a \in Agents, field \in Keys, response \in Responses : AppendRead(a, field, response)
    \/ \E a \in Agents : AppendWrite(a)
    \/ \E a \in Agents : ExitLoop(a)
    \/ \E a \in Agents, directory \in Directories, filename \in Filenames, content \in Contents :
          WriteFile(a, directory, filename, content)
    \/ \E a \in Agents : Finish(a)
    \/ Transfer
    \/ JoinTeam
    \/ AfterJudge
    \/ PipelineDone

Spec == Init /\ [][Next]_vars

\* Every agent run and every tool call that has started completes: a step
\* that can be taken is eventually taken.
SpecLive == Spec /\ WF_vars(Next)

----------------------------------------------------------------------------
(* Helpers of the properties *)

Terminated == {"TERMINATED_BY_SIGNAL", "TERMINATED_BY_CAP"}

IsPrefix(s, t) == Len(s) <= Len(t) /\ \A i \in 1..Len(s) : s[i] = t[i]

\* The responses of the calls of calls (a sequence of <<field, response>>)
\* made on key k, in call order.
RECURSIVE Project(_, _)
Project(calls, k) ==
    IF calls = <<>> THEN <<>>
    ELSE IF Head(calls)[1] = k
         THEN <<Head(calls)[2]>> \o Project(Tail(calls), k)
         ELSE Project(Tail(calls), k)

OnlyField(a, k) == \A i \in 1..Len(items[a]) : items[a][i][1] = k

----------------------------------------------------------------------------
(* Properties *)

\* C1: if the judge first calls exit_loop on pass N (1 <= N <= max_iterations),
\* trial_review_loop performs exactly N passes of (investigation_team, judge):
\* from the signal on, the number of investigation_team runs and of judge runs
\* stays N, no research agent is started again, and the loop ends by signal.
C1_ExitOnPassN ==
    exit_pass # 0 =>
        /\ exit_pass \in 1..max_iterations
        /\ team_runs = exit_pass
        /\ judge_runs = exit_pass
        /\ stage # "team"
        /\ loop_status \in {"RUNNING", "TERMINATED_BY_SIGNAL"}
        /\ (stage \in {"verdict", "finished"} => loop_status = "TERMINATED_BY_SIGNAL")

C1_Witness ==
    /\ stage = "finished"
    /\ exit_pass = 2
    /\ team_runs = 2
    /\ loop_status = "TERMINATED_BY_SIGNAL"

\* C2: if the judge never calls exit_loop, trial_review_loop performs exactly
\* max_iterations passes and stops in TERMINATED_BY_CAP; a pass beyond
\* max_iterations never starts.
C2_CapAtMaxIterations ==
    /\ team_runs <= max_iterations
    /\ judge_runs <= max_iterations
    /\ (exit_pass = 0 /\ loop_status \in Terminated) =>
          /\ loop_status = "TERMINATED_BY_CAP"
          /\ team_runs = max_iterations
          /\ judge_runs = max_iterations
          /\ times_looped = max_iterations

C2_Witness ==
    /\ loop_status = "TERMINATED_BY_CAP"
    /\ exit_pass = 0
    /\ team_runs = max_iterations
    /\ stage = "finished"

\* C3: verdict_agent runs exactly once, it is started by the very step that
\* terminates trial_review_loop (by signal or by cap) and not before, and no
\* research agent or judge runs once the exit signal is raised or the loop
\* has terminated; also when the judge exits on pass 1 with no data.
C3_VerdictOnceAfterLoop ==
    /\ [](verdict_runs <= 1)
    /\ []((verdict_runs = 1) <=> (loop_status \in Terminated))
    /\ []((pc["verdict_agent"] # "idle") <=> (loop_status \in Terminated))
    /\ [](stage = "finished" => verdict_runs = 1 /\ pc["verdict_agent"] = "done")
    /\ [](loop_status \in Terminated =>
            \A a \in investigation_team \cup {"judge"} : pc[a] \in {"idle", "done"})
    /\ [][(escalate \/ loop_status \in Terminated) =>
            /\ team_runs' = team_runs
            /\ judge_runs' = judge_runs
            /\ state' = state]_vars

C3_Witness ==
    /\ stage = "finished"
    /\ exit_pass = 1
    /\ verdict_runs = 1
    /\ "pos_data" \notin DOMAIN state
    /\ "neg_data" \notin DOMAIN state

\* C4: join barrier: whenever the judge runs, both admirer and
\* critic_investigator have completed the current pass (in either order),
\* and no research agent is running.
C4_JoinBarrier ==
    /\ (stage = "judge" \/ pc["judge"] \in {"running", "get"}) =>
          /\ \A a \in investigation_team : pc[a] = "done"
          /\ Len(order) = Cardinality(investigation_team)
          /\ \A a \in investigation_team : \E i \in 1..Len(order) : order[i] = a
          /\ judge_runs = team_runs
    /\ judge_runs <= team_runs

C4_Witness ==
    /\ pc["judge"] = "running"
    /\ order = <<"critic_investigator", "admirer">>
    /\ team_runs = 2

\* C5 (as claimed): across every step, the earlier value of pos_data and of
\* neg_data is a prefix of the later value.
C5_AppendOnly ==
    [][\A k \in {"pos_data", "neg_data"} :
          IsPrefix(StateGet(state, k), StateGet(state', k))]_vars

\* C6: sequential append_to_state: while only the inquiry agent has run, every
\* key holds exactly the responses appended to it, in call order (a first call
\* on an absent key yields a one-element list, a later call extends it, other
\* keys are untouched), and every completed call returned status success.
C6_SequentialAppend ==
    stage = "inquiry" =>
        /\ \A k \in Keys : StateGet(state, k) = Project(items["inquiry_agent"], k)
        /\ \A k \in Keys : (k \in DOMAIN state) <=> (Project(items["inquiry_agent"], k) # <<>>)
        /\ DOMAIN state \subseteq Keys
        /\ (items["inquiry_agent"] # <<>> => ret["inquiry_agent"] = "success")

C6_Witness ==
    /\ stage = "inquiry"
    /\ items["inquiry_agent"] = << <<"pos_data", "a">>, <<"pos_data", "b">> >>
    /\ StateGet(state, "pos_data") = <<"a", "b">>
    /\ DOMAIN state = {"pos_data"}

\* C7 (as claimed): no lost updates: when investigation_team has completed a
\* pass, every key holds its value at the start of the pass extended by one
\* element for each append either research agent made to it.
C7_NoLostUpdate ==
    (stage = "team" /\ JoinReady(pc)) =>
        \A k \in Keys :
            Len(StateGet(state, k)) =
                Len(StateGet(pre, k)) + Len(Project(items["admirer"], k))
                                      + Len(Project(items["critic_investigator"], k))

\* C8: disjoint keys: during a pass in which admirer has appended only to
\* pos_data and critic_investigator only to neg_data, pos_data is its value
\* at the start of the pass followed by admirer's responses in call order,
\* neg_data likewise with critic_investigator's, and a research agent that
\* has not completed always has a step it can take.
C8_DisjointKeys ==
    stage = "team" =>
        /\ (OnlyField("admirer", "pos_data") /\ OnlyField("critic_investigator", "neg_data")) =>
              /\ StateGet(state, "pos_data") =
                    StateGet(pre, "pos_data") \o Project(items["admirer"], "pos_data")
              /\ StateGet(state, "neg_data") =
                    StateGet(pre, "neg_data") \o Project(items["critic_investigator"], "neg_data")
        /\ \A a \in investigation_team :
              pc[a] # "done" => ENABLED (Finish(a) \/ AppendWrite(a))

C8_Witness ==
    /\ stage = "team"
    /\ JoinReady(pc)
    /\ team_runs = 2
    /\ StateGet(pre, "pos_data") = <<"b">>
    /\ items["admirer"] = << <<"pos_data", "a">> >>
    /\ items["critic_investigator"] = << <<"neg_data", "b">> >>
    /\ order = <<"admirer", "critic_investigator">>
    /\ StateGet(state, "pos_data") = <<"b", "a">>
    /\ StateGet(state, "neg_data") = <<"b">>

\* C9: only the judge can stop the loop early: the exit signal is raised
\* only by a step of the running judge, and trial_review_loop moves to
\* TERMINATED_BY_SIGNAL only on the completion of a judge run.
C9_OnlyJudgeExits ==
    /\ [](exit_by \subseteq {"judge"})
    /\ [](escalate => stage \notin {"inquiry", "team"})
    /\ [][(escalate' /\ ~escalate) => (stage = "judge" /\ pc["judge"] = "running")]_vars
    /\ [][(loop_status' = "TERMINATED_BY_SIGNAL" /\ loop_status # "TERMINATED_BY_SIGNAL") =>
            (stage = "judge" /\ pc["judge"] = "done" /\ exit_by = {"judge"})]_vars

C9_Witness ==
    /\ loop_status = "TERMINATED_BY_SIGNAL"
    /\ exit_by = {"judge"}
    /\ items["admirer"] # <<>>
    /\ stage = "verdict"

\* C10 (as claimed): once TOPIC is set, the resolution of { TOPIC? } is the
\* same in every later state; while it is unset the resolution is empty.
C10_TopicStable ==
    /\ []("TOPIC" \notin DOMAIN state => Resolve(state, "TOPIC") = <<>>)
    /\ [][("TOPIC" \in DOMAIN state) =>
            Resolve(state', "TOPIC") = Resolve(state, "TOPIC")]_vars

\* C11 (as claimed): no unit of historical_court_system runs while TOPIC is
\* unset: whenever the inquiry agent has transferred control, TOPIC is set.
C11_TopicSeededBeforeDelegation ==
    stage # "inquiry" => "TOPIC" \in DOMAIN state

\* C12 (as claimed): a write_file call never raises and never aborts the run:
\* its outcome is a returned status.
C12_WriteFailureContained ==
    /\ ret["verdict_agent"] \in {"none", "success", "error"}
    /\ stage # "aborted"

\* C13: write_file creates missing parents and is idempotent: a call with a
\* non-empty directory none of whose components exists returns success, all
\* components are directories afterwards and directory/filename holds exactly
\* content, no other file changing; a call whose target file already exists
\* returns success, creates nothing and leaves the file holding the content
\* of this call alone, so a repeated call leaves the store as it was.
C13_PersistCreatesAndOverwrites ==
    [][\A directory \in Directories, filename \in Filenames, content \in Contents :
          WriteFile("verdict_agent", directory, filename, content) =>
             LET target == JoinPath(directory, filename) IN
             /\ (directory # <<>> /\ \A p \in Prefixes(target) : p \notin dirs \cup DOMAIN files) =>
                   /\ ret'["verdict_agent"] = "success"
                   /\ dirs' = dirs \cup Prefixes(directory)
                   /\ DOMAIN files' = DOMAIN files \cup {target}
                   /\ files'[target] = content
                   /\ \A p \in DOMAIN files : files'[p] = files[p]
             /\ (target \in DOMAIN files) =>
                   /\ ret'["verdict_agent"] = "success"
                   /\ stage' = stage
                   /\ dirs' = dirs
                   /\ DOMAIN files' = DOMAIN files
                   /\ files'[target] = content
                   /\ \A p \in DOMAIN files \ {target} : files'[p] = files[p]
                   /\ (files[target] = content => files' = files)]_vars

C13_Witness ==
    /\ written = << <<<<"court_reports", "x">>, "topic.txt", "r1">>,
                    <<<<"court_reports", "x">>, "topic.txt", "r1">>,
                    <<<<"court_reports", "x">>, "topic.txt", "r2">> >>
    /\ ret["verdict_agent"] = "success"
    /\ dirs = {<<"court_reports">>, <<"court_reports", "x">>}
    /\ DOMAIN files = {<<"court_reports", "x", "topic.txt">>}
    /\ files[<<"court_reports", "x", "topic.txt">>] = "r2"
    /\ stage = "finished"

\* C14: iteration counter: times_looped is 0 until the first pass has been
\* completed, lies in 0..max_iterations, grows only by one and exactly when a
\* judge run completes without the exit signal, the loop is RUNNING only while
\* times_looped < max_iterations, and times_looped = max_iterations means
\* TERMINATED_BY_CAP.
C14_IterationCounter ==
    /\ [](times_looped \in 0..max_iterations)
    /\ [](loop_status = "NOT_STARTED" => times_looped = 0)
    /\ [](loop_status = "RUNNING" =>
             times_looped < max_iterations /\ times_looped + 1 = team_runs)
    /\ [](loop_status = "TERMINATED_BY_SIGNAL" => times_looped + 1 = exit_pass)
    /\ []((times_looped = max_iterations) <=> (loop_status = "TERMINATED_BY_CAP"))
    /\ [][times_looped' # times_looped =>
            /\ times_looped' = times_looped + 1
            /\ stage = "judge" /\ pc["judge"] = "done" /\ ~escalate]_vars
    /\ [][(stage = "judge" /\ pc["judge"] = "done" /\ ~escalate) =>
            times_looped' = times_looped + 1]_vars

C14_Witness ==
    /\ times_looped = max_iterations
    /\ loop_status = "TERMINATED_BY_CAP"
    /\ judge_runs = max_iterations
    /\ stage = "verdict"

\* C15 (as claimed): when every step that can be taken is eventually taken,
\* every run eventually leaves trial_review_loop and eventually completes
\* verdict_agent.
C15_Termination ==
    /\ <>(loop_status \in Terminated)
    /\ <>(stage = "finished" /\ pc["verdict_agent"] = "done")

\* C16 (as claimed): in every run admirer's append_to_state calls modify only
\* pos_data and critic_investigator's only neg_data.
C16_WriterKeysDisjoint ==
    /\ OnlyField("admirer", "pos_data")
    /\ OnlyField("critic_investigator", "neg_data")

\* C17: frame of the non-appending agents: every step taken while judge or
\* verdict_agent is the running unit (exit_loop, write_file, the end of their
\* runs, the loop's step after the judge) leaves the state unchanged, and the
\* state changes only by the write of an append_to_state call of the inquiry
\* agent, admirer or critic_investigator.
C17_Frame ==
    /\ [][(stage \in {"judge", "verdict", "finished", "aborted"}) => (state' = state)]_vars
    /\ [][(escalate' # escalate \/ fsvars' # fsvars \/ ret'["verdict_agent"] # ret["verdict_agent"]
             \/ pc'["judge"] # pc["judge"] \/ pc'["verdict_agent"] # pc["verdict_agent"])
            => state' = state]_vars
    /\ [][state' # state =>
            (\E a \in {"inquiry_agent", "admirer", "critic_investigator"} :
               /\ pc[a] = "get" /\ pc'[a] = "running"
               /\ items'[a] = Append(items[a], args[a])
               /\ \A k \in (DOMAIN state) \ {args[a][1]} :
                     (k \in DOMAIN state' /\ state'[k] = state[k]))]_vars

C17_Witness ==
    /\ stage = "finished"
    /\ exit_by = {"judge"}
    /\ writes = 1
    /\ DOMAIN files # {}
    /\ DOMAIN state = {"pos_data", "neg_data"}
    /\ state = pre

C19_StateShape ==
    /\ \A k \in DOMAIN state : state[k] \in Seq(Responses) /\ Len(state[k]) >= 1
    /\ \A a \in Agents : pc[a] = "get" => existing_state[a] \in Seq(Responses)
    /\ (stage = "inquiry" /\ Len(Project(items["inquiry_agent"], "TOPIC")) = 1) =>
          /\ "TOPIC" \in DOMAIN state
          /\ state["TOPIC"] = <<Project(items["inquiry_agent"], "TOPIC")[1]>>

C19_Witness ==
    /\ stage = "team"
    /\ StateGet(state, "TOPIC") = <<"a">>
    /\ StateGet(state, "pos_data") = <<"b">>
    /\ pc["critic_investigator"] = "get"
    /\ args["critic_investigator"] = <<"pos_data", "a">>
    /\ existing_state["critic_investigator"] = <<"b">>

====
